---------------------------- MODULE Spec2Model ----------------------------
(***************************************************************************)
(* State-machine model of the yasb widgets:                                *)
(*   - MediaWidget (src/src/core/widgets/yasb/media.py): the three slots   *)
(*     fed by the media-session notification streams, the field            *)
(*     truncation and the thumbnail compositor;                            *)
(*   - LanguageWidget (src/src/core/widgets/yasb/language.py): label       *)
(*     segment creation, toggle and update.                                *)
(* Strings are sequences of one-character strings (media text) or of       *)
(* markup tokens (language templates).  A Qt widget is a record holding    *)
(* the properties the code sets; "visible" is TRUE after show() (or for a  *)
(* never-hidden child of an installed layout) and FALSE after hide().      *)
(***************************************************************************)
EXTENDS Integers, Sequences, FiniteSets, TLC

VARIABLES
    \* ---- MediaWidget ----
    config,               \* constructor arguments (hide_empty, controls_only, ...)
    widget_frame,         \* self._widget_frame            [visible]
    main_text_label,      \* self._main_text_label         [text, visible]
    sub_text_label,       \* self._sub_text_label          [text, visible]
    thumbnail_label,      \* self._thumbnail_label         [pixmap, visible]
    prev_label,           \* self._prev_label              [text, class]
    play_label,           \* self._play_label              [text, class]
    next_label,           \* self._next_label              [text, class]
    media_show_alt_label, \* MediaWidget._show_alt_label
    last,                 \* history: the notification handled last, and whether
                          \* the slot raised / the thumbnail branch failed
    last_session,         \* history: has_session of the last session-status slot run
    \* ---- pure functions of MediaWidget, applied to drawn inputs ----
    fn_args,              \* the inputs of the call
    fn_result,            \* None before the call, the returned value after
    \* ---- LanguageWidget ----
    label_content,        \* self._label_content
    label_alt_content,    \* self._label_alt_content
    lang_show_alt_label,  \* LanguageWidget._show_alt_label
    widgets,              \* self._widgets      (sequence of QLabel records)
    widgets_alt,          \* self._widgets_alt
    toggles,              \* history: number of _toggle_label calls so far
    upd                   \* history: what the last _update_label wrote

media_vars == <<config, widget_frame, main_text_label, sub_text_label,
                thumbnail_label, prev_label, play_label, next_label,
                media_show_alt_label, last, last_session>>
fn_vars == <<fn_args, fn_result>>
lang_vars == <<label_content, label_alt_content, lang_show_alt_label,
               widgets, widgets_alt, toggles, upd>>
vars == <<media_vars, fn_vars, lang_vars>>

\* Optional values (Python's None or a value): the empty tuple or a 1-tuple
None == <<>>
Some(x) == <<x>>
Value(opt) == opt[1]

Min(a, b) == IF a <= b THEN a ELSE b
Max(a, b) == IF a >= b THEN a ELSE b

-----------------------------------------------------------------------------
(* Python primitives used by the code *)

\* text[:k] : a negative k counts from the end of the string
SliceTo(text, k) ==
    IF k >= 0 THEN SubSeq(text, 1, Min(k, Len(text)))
              ELSE SubSeq(text, 1, Max(Len(text) + k, 0))

\* round(n / d) for d > 0: Python 3 rounds halves to the even neighbour
\* (the quotient is taken exactly; \div is floor division, as Python's //)
RoundHalfEven(n, d) ==
    LET q == n \div d
        r == n % d
    IN  IF 2 * r < d THEN q
        ELSE IF 2 * r > d THEN q + 1
        ELSE IF q % 2 = 0 THEN q ELSE q + 1

Ellipsis == <<".", ".", ".">>

-----------------------------------------------------------------------------
(* MediaWidget._format_max_field_size *)

\* line 225 cutting at the limit itself, leaving no room for the ellipsis
FormatMaxFieldSize_NoEllipsisRoom(show_alt_label, sizes, text) ==
    LET max_field_size == IF show_alt_label THEN sizes.label_alt ELSE sizes.label
    IN  IF Len(text) > max_field_size
        THEN SliceTo(text, max_field_size) \o Ellipsis
        ELSE text

\* lines 222-227
FormatMaxFieldSize(show_alt_label, sizes, text) ==
    LET max_field_size == IF show_alt_label THEN sizes.label_alt ELSE sizes.label
    IN  IF Len(text) > max_field_size
        THEN SliceTo(text, max_field_size - 3) \o Ellipsis
        ELSE text

-----------------------------------------------------------------------------
(* MediaWidget._crop_thumbnail: the thumbnail compositor.                  *)
(* An image is [width, height]; its pixels are not modelled, so the        *)
(* average lightness of the cropped band is an input of the call.  The     *)
(* configured thumbnail_alpha_range is r_num / RDen, the configured        *)
(* thumbnail_alpha_multiplier m_num / MDen and the average lightness       *)
(* l_num / LumDen; the arithmetic is exact where Python uses doubles.      *)

RDen == 4
MDen == 2
LumDen == 1
MaxLightness == 255

\* line 190: new_height = round(thumbnail.height * (new_width / thumbnail.width))
ScaledHeight(thumbnail, new_width) ==
    RoundHalfEven(thumbnail.height * new_width, thumbnail.width)

\* line 195 without the halving
CropTop_NoHalf(scaled_height, new_h) == scaled_height - new_h

\* line 195: y1 = (thumbnail.height - new_h) // 2
CropTop(scaled_height, new_h) == (scaled_height - new_h) \div 2

\* lines 199-200 with the lightness term not inverted
ThumbnailAlpha_NotInverted(m_num, r_num, l_num) ==
    RoundHalfEven(m_num * ((RDen - r_num) * MaxLightness * LumDen + r_num * l_num),
                  MDen * RDen * LumDen)

\* lines 199-200:
\*   thumbnail_alpha = (1.0 - range) * 255 + range * (255 - avg_lightness)
\*   thumbnail_alpha = round(multiplier * thumbnail_alpha)
ThumbnailAlpha(m_num, r_num, l_num) ==
    RoundHalfEven(m_num * ((RDen - r_num) * MaxLightness * LumDen
                           + r_num * (MaxLightness * LumDen - l_num)),
                  MDen * RDen * LumDen)

\* line 190 divides by thumbnail.width: ZeroDivisionError for an empty image
CropThumbnailRaises(thumbnail) == thumbnail.width = 0

\* The returned image: its size, the band of the scaled image it holds
\* (rows [top, bottom)), the alpha value and how it is applied.
CropThumbnail(thumbnail, active_label_width, new_h, l_num, cfg) ==
    LET new_width     == active_label_width + cfg.thumbnail_padding
        scaled_height == ScaledHeight(thumbnail, new_width)
        y1            == CropTop(scaled_height, new_h)
        alpha         == ThumbnailAlpha(cfg.alpha_multiplier_num,
                                        cfg.alpha_range_num, l_num)
    IN  [width         |-> new_width,
         height        |-> (y1 + new_h) - y1,
         scaled_height |-> scaled_height,
         top           |-> y1,
         bottom        |-> y1 + new_h,
         alpha         |-> alpha,
         mask          |-> IF cfg.thumbnail_corner_radius > 0
                           THEN IF cfg.controls_left THEN "rounded right"
                                                     ELSE "rounded left"
                           ELSE "uniform"]

-----------------------------------------------------------------------------
(* MediaWidget: configuration and notification payloads *)

\* icons: the configured glyph of each media button
Icons == [prev_track |-> "PREV", play |-> "PLAY", pause |-> "PAUSE",
          next_track |-> "NEXT"]

\* label_main / label_sub: the templates formatted with the media info
LabelMain == <<"{title}">>
LabelSub == <<"{artist}">>

\* str.format(**media_info) on a template of literal characters and the
\* replacement fields {title} and {artist}
FormatLabel(template, info) ==
    LET Piece(tok) == IF tok = "{title}" THEN info.title
                      ELSE IF tok = "{artist}" THEN info.artist
                      ELSE <<tok>>
        F[i \in 0..Len(template)] ==
            IF i = 0 THEN <<>> ELSE F[i - 1] \o Piece(template[i])
    IN  F[Len(template)]

\* QLabel.sizeHint().width() of a text, one unit per character
SizeHintWidth(text) == Len(text)

MediaConfigs ==
    [hide_empty              : BOOLEAN,
     controls_only           : BOOLEAN,
     show_thumbnail          : BOOLEAN,
     controls_left           : {FALSE},
     max_field_size          : {[label |-> 3, label_alt |-> 5],
                                [label |-> 5, label_alt |-> 3]},
     thumbnail_padding       : {1},
     thumbnail_corner_radius : {0},
     alpha_range_num         : {RDen \div 2},
     alpha_multiplier_num    : {MDen}]

MediaThumbnails == {None, Some([width |-> 0, height |-> 0]),
                    Some([width |-> 2, height |-> 4])}

MediaInfos ==
    {None} \cup
    {Some(i) : i \in [title     : {<<"a">>, <<"a", "b", "c", "d">>},
                      artist    : {<<"x">>},
                      thumbnail : MediaThumbnails]}

\* playback_status 4 is Playing, 5 is Paused
PlaybackInfos ==
    [playback_status : {4, 5},
     controls : {[is_previous_enabled |-> TRUE, is_play_pause_toggle_enabled |-> TRUE,
                  is_next_enabled |-> TRUE],
                 [is_previous_enabled |-> FALSE, is_play_pause_toggle_enabled |-> TRUE,
                  is_next_enabled |-> FALSE]}]

\* the rendered height of the widget frame, and the average lightness of a
\* cropped thumbnail, as the slot may find them
MediaFrameHeights == {2}
MediaLightness == {0, MaxLightness * LumDen}

NoNotification ==
    [kind |-> "none", has_session |-> FALSE, media_info |-> None,
     raised |-> FALSE, thumbnail_error |-> FALSE]

-----------------------------------------------------------------------------
(* MediaWidget.__init__ *)

MediaIdle ==
    /\ config = [hide_empty |-> FALSE]
    /\ widget_frame = [visible |-> FALSE]
    /\ main_text_label = [text |-> <<>>, visible |-> FALSE]
    /\ sub_text_label = [text |-> <<>>, visible |-> FALSE]
    /\ thumbnail_label = [pixmap |-> None, visible |-> FALSE]
    /\ prev_label = [text |-> "", class |-> <<>>]
    /\ play_label = [text |-> "", class |-> <<>>]
    /\ next_label = [text |-> "", class |-> <<>>]
    /\ media_show_alt_label = FALSE
    /\ last = NoNotification
    /\ last_session = "none"

\* The labels of the text/thumbnail grid belong to the container's layout
\* only when controls_only is false (lines 63-70); without a parent they
\* stay unshown until show() is called on them.
MediaInit ==
    /\ config \in MediaConfigs
    /\ widget_frame = [visible |-> ~config.hide_empty]
    /\ main_text_label = [text |-> <<>>, visible |-> ~config.controls_only]
    /\ sub_text_label = [text |-> <<>>, visible |-> ~config.controls_only]
    /\ thumbnail_label = [pixmap |-> None, visible |-> ~config.controls_only]
    /\ prev_label = [text |-> Icons.prev_track, class |-> <<"btn">>]
    /\ play_label = [text |-> Icons.play, class |-> <<"btn">>]
    /\ next_label = [text |-> Icons.next_track, class |-> <<"btn">>]
    /\ media_show_alt_label = FALSE
    /\ last = NoNotification
    /\ last_session = "none"

-----------------------------------------------------------------------------
(* MediaWidget slots *)

\* the else branch without the thumbnail hide (line 128 dropped)
SessionAbsentThumbnail_Kept(label) == label

\* line 128: self._thumbnail_label.hide()
SessionAbsentThumbnail(label) == [label EXCEPT !.visible = FALSE]

OnSessionStatusChanged(has_session) ==
    /\ IF has_session
       THEN /\ widget_frame' = [widget_frame EXCEPT !.visible = TRUE]
            /\ IF ~config.controls_only
               THEN /\ main_text_label' = [main_text_label EXCEPT !.visible = TRUE]
                    /\ sub_text_label' = [sub_text_label EXCEPT !.visible = TRUE]
               ELSE UNCHANGED <<main_text_label, sub_text_label>>
            /\ UNCHANGED <<thumbnail_label, play_label>>
       ELSE /\ thumbnail_label' = SessionAbsentThumbnail(thumbnail_label)
            /\ main_text_label' = [text |-> <<>>, visible |-> TRUE]
            /\ sub_text_label' = [text |-> <<>>, visible |-> TRUE]
            /\ play_label' = [play_label EXCEPT !.text = Icons.play]
            /\ IF config.hide_empty
               THEN widget_frame' = [widget_frame EXCEPT !.visible = FALSE]
               ELSE UNCHANGED widget_frame
    /\ last' = [NoNotification EXCEPT !.kind = "session_status",
                                      !.has_session = has_session]
    /\ last_session' = IF has_session THEN "present" ELSE "absent"
    /\ UNCHANGED <<config, prev_label, next_label, media_show_alt_label>>

EnabledIf(enabled) == IF ~enabled THEN "disabled" ELSE ""

OnPlaybackInfoChanged(playback_info) ==
    /\ play_label' =
          [text  |-> IF playback_info.playback_status = 4 THEN Icons.pause
                                                           ELSE Icons.play,
           class |-> <<"btn play",
                       EnabledIf(playback_info.controls.is_play_pause_toggle_enabled)>>]
    /\ prev_label' = [prev_label EXCEPT !.class =
          <<"btn prev", EnabledIf(playback_info.controls.is_previous_enabled)>>]
    /\ next_label' = [next_label EXCEPT !.class =
          <<"btn next", EnabledIf(playback_info.controls.is_next_enabled)>>]
    /\ last' = [NoNotification EXCEPT !.kind = "playback_info"]
    /\ UNCHANGED <<config, widget_frame, main_text_label, sub_text_label,
                   thumbnail_label, media_show_alt_label, last_session>>

\* lines 163-165: every str field shortened, the other fields kept
ShortenFields(info) ==
    [info EXCEPT
       !.title = FormatMaxFieldSize(media_show_alt_label, config.max_field_size, @),
       !.artist = FormatMaxFieldSize(media_show_alt_label, config.max_field_size, @)]

\* lines 176-185: try / except / else around the thumbnail update
ThumbnailBranch(label, thumbnail, width, new_h, l_num) ==
    IF thumbnail # None
    THEN IF CropThumbnailRaises(Value(thumbnail))
         THEN [label EXCEPT !.visible = FALSE]
         ELSE [pixmap  |-> Some(CropThumbnail(Value(thumbnail), width, new_h,
                                              l_num, config)),
               visible |-> TRUE]
    ELSE [label EXCEPT !.visible = TRUE]

OnMediaPropertiesChanged(media_info, new_h, l_num) ==
    /\ IF config.controls_only
       THEN /\ last' = [NoNotification EXCEPT !.kind = "media_info",
                                              !.media_info = media_info]
            /\ UNCHANGED <<main_text_label, sub_text_label, thumbnail_label>>
       ELSE IF media_info = None
       THEN \* line 165: None has no items(): AttributeError leaves the slot
            /\ last' = [NoNotification EXCEPT !.kind = "media_info",
                                              !.media_info = media_info,
                                              !.raised = TRUE]
            /\ UNCHANGED <<main_text_label, sub_text_label, thumbnail_label>>
       ELSE LET info  == ShortenFields(Value(media_info))
                main  == FormatLabel(LabelMain, info)
                sub   == FormatLabel(LabelSub, info)
                width == Max(SizeHintWidth(main), SizeHintWidth(sub))
            IN  /\ main_text_label' = [main_text_label EXCEPT !.text = main]
                /\ sub_text_label' = [sub_text_label EXCEPT !.text = sub]
                /\ IF ~config.show_thumbnail
                   THEN UNCHANGED thumbnail_label
                   ELSE thumbnail_label' =
                            ThumbnailBranch(thumbnail_label, info.thumbnail,
                                            width, new_h, l_num)
                /\ last' = [NoNotification EXCEPT
                              !.kind = "media_info",
                              !.media_info = media_info,
                              !.thumbnail_error =
                                   /\ config.show_thumbnail
                                   /\ info.thumbnail # None
                                   /\ CropThumbnailRaises(Value(info.thumbnail))]
    /\ UNCHANGED <<config, widget_frame, prev_label, play_label, next_label,
                   media_show_alt_label, last_session>>

SessionStatus == \E has_session \in BOOLEAN : OnSessionStatusChanged(has_session)
PlaybackInfo == \E playback_info \in PlaybackInfos : OnPlaybackInfoChanged(playback_info)
MediaInfo ==
    \E media_info \in MediaInfos, new_h \in MediaFrameHeights, l_num \in MediaLightness :
        OnMediaPropertiesChanged(media_info, new_h, l_num)

-----------------------------------------------------------------------------
(* The pure functions of MediaWidget applied to drawn inputs: fn_args      *)
(* holds the arguments and the attributes of self the function reads,      *)
(* fn_result the returned value once the call was made.                    *)

MaxTextLen == 4
MaxFieldSize == 4
MaxDim == 3
MaxLabelWidth == 3
MaxFrameHeight == 4
MaxMNum == 3

Chars == {"a", "b"}
Texts == UNION {[1..n -> Chars] : n \in 0..MaxTextLen}

FnIdle ==
    /\ fn_args = [fn |-> "none"]
    /\ fn_result = None

\* _format_max_field_size(text) with self._max_field_size and
\* self._show_alt_label (which MediaWidget itself only ever sets to False)
FormatInit ==
    /\ fn_args \in [fn             : {"_format_max_field_size"},
                    show_alt_label : BOOLEAN,
                    max_field_size : [label : 0..MaxFieldSize,
                                      label_alt : 0..MaxFieldSize],
                    text           : Texts]
    /\ fn_result = None

FormatCall ==
    /\ fn_args.fn = "_format_max_field_size"
    /\ fn_result = None
    /\ fn_result' = Some(FormatMaxFieldSize(fn_args.show_alt_label,
                                            fn_args.max_field_size, fn_args.text))
    /\ UNCHANGED fn_args

CropConfig(r_num, m_num) ==
    [thumbnail_padding |-> 1, thumbnail_corner_radius |-> 0, controls_left |-> FALSE,
     alpha_range_num |-> r_num, alpha_multiplier_num |-> m_num]

\* _crop_thumbnail over the geometry of the source image, the label and the frame
CropInit ==
    /\ fn_args \in [fn                 : {"_crop_thumbnail"},
                    thumbnail          : [width : 0..MaxDim, height : 1..MaxDim],
                    active_label_width : 0..MaxLabelWidth,
                    new_h              : 0..MaxFrameHeight,
                    l_num              : {0, MaxLightness * LumDen},
                    cfg                : {CropConfig(RDen \div 2, MDen)}]
    /\ fn_result = None

\* _crop_thumbnail over the alpha range, the multiplier and the lightness
AlphaInit ==
    /\ fn_args \in [fn                 : {"_crop_thumbnail"},
                    thumbnail          : {[width |-> 2, height |-> 4]},
                    active_label_width : {1},
                    new_h              : {2},
                    l_num              : 0..(MaxLightness * LumDen),
                    cfg                : {CropConfig(r, m) : r \in 0..RDen,
                                                             m \in 0..MaxMNum}]
    /\ fn_result = None

CropCall ==
    /\ fn_args.fn = "_crop_thumbnail"
    /\ fn_result = None
    /\ fn_result' =
          IF CropThumbnailRaises(fn_args.thumbnail)
          THEN Some([raised |-> "ZeroDivisionError"])
          ELSE Some(CropThumbnail(fn_args.thumbnail, fn_args.active_label_width,
                                  fn_args.new_h, fn_args.l_num, fn_args.cfg))
    /\ UNCHANGED fn_args

-----------------------------------------------------------------------------
(* LanguageWidget: a template is a sequence of tokens: an opening span     *)
(* tag, a closing span tag, a blank, a literal, and the replacement field  *)
(* of the keyboard language.                                               *)

MaxTemplateLen == 3
MaxToggles == 3

OPEN == "<span class='icon'>"
CLOSE == "</span>"
SP == " "
LANG == "{lang[language_code]}"
Tok == {OPEN, CLOSE, SP, "A", LANG}

\* the template of the documentation: an icon span, then text with the field
ExampleTemplate == <<OPEN, "A", CLOSE, SP, "B", SP, LANG>>

BoundedTemplates == UNION {[1..n -> Tok] : n \in 0..MaxTemplateLen}

\* the (label, label_alt) pairs the widget is constructed with
TemplatePairs ==
    {p \in BoundedTemplates \X BoundedTemplates :
        Len(p[1]) + Len(p[2]) <= MaxTemplateLen}
    \cup {<<ExampleTemplate, <<LANG>>>>, <<<<"A">>, ExampleTemplate>>}

\* _get_current_keyboard_language(): the dict it returns, or None when the
\* query raised and the bare except of _update_label took over
Langs == {None,
          Some([language_code |-> "en", country_code |-> "US",
                full_name |-> "English (United States)"]),
          Some([language_code |-> "nl", country_code |-> "NL",
                full_name |-> "Dutch (Netherlands)"])}

\* the position of the first closing tag at or after from, 0 if there is none
FirstClose(s, from) ==
    IF \E q \in from..Len(s) : s[q] = CLOSE
    THEN CHOOSE q \in from..Len(s) :
            /\ s[q] = CLOSE
            /\ \A k \in from..(q - 1) : s[k] # CLOSE
    ELSE 0

\* the start of the leftmost match of <span.*?>.*?</span> at or after from
\* (an opening tag with a closing tag somewhere behind it), 0 if none
FirstSpan(s, from) ==
    IF \E p \in from..Len(s) : s[p] = OPEN /\ FirstClose(s, p + 1) # 0
    THEN CHOOSE p \in from..Len(s) :
            /\ s[p] = OPEN /\ FirstClose(s, p + 1) # 0
            /\ \A k \in from..(p - 1) : ~(s[k] = OPEN /\ FirstClose(s, k + 1) # 0)
    ELSE 0

\* re.split('(<span.*?>.*?</span>)', content): the text between the matches
\* and, the group capturing, the matches themselves; empty strings included
RECURSIVE SplitFrom(_, _)
SplitFrom(s, from) ==
    LET p == FirstSpan(s, from)
    IN  IF p = 0
        THEN <<SubSeq(s, from, Len(s))>>
        ELSE LET q == FirstClose(s, p + 1)
             IN  <<SubSeq(s, from, p - 1), SubSeq(s, p, q)>> \o SplitFrom(s, q + 1)

ReSplit(content) == SplitFrom(content, 1)

\* [part for part in label_parts if part]
NonEmptyParts(parts) == SelectSeq(parts, LAMBDA part : part # <<>>)

\* str.strip()
RECURSIVE Strip(_)
Strip(part) ==
    IF part = <<>> THEN part
    ELSE IF Head(part) = SP THEN Strip(Tail(part))
    ELSE IF part[Len(part)] = SP THEN Strip(SubSeq(part, 1, Len(part) - 1))
    ELSE part

\* '<span' in part and '</span>' in part
IsSpan(part) ==
    /\ \E i \in 1..Len(part) : part[i] = OPEN
    /\ \E i \in 1..Len(part) : part[i] = CLOSE

\* re.sub(r'<span.*?>|</span>', '', part).strip()
IconOf(part) == Strip(SelectSeq(part, LAMBDA t : t # OPEN /\ t # CLOSE))

\* part.format(lang=lang): each replacement field gives the value it names
FormatPart(part, lang) ==
    [i \in 1..Len(part) |->
        IF part[i] = LANG THEN lang.language_code ELSE part[i]]

-----------------------------------------------------------------------------
(* LanguageWidget._create_dynamically_label *)

\* lines 79-80: the class attribute of the span, 'icon' without one
ClassOf(part) == "icon"

\* lines 78-94: the QLabel created for one stripped, non-empty part
NewLabel(part, is_alt) ==
    [text    |-> IF IsSpan(part) THEN IconOf(part) ELSE part,
     class   |-> IF is_alt THEN "label alt"
                 ELSE IF IsSpan(part) THEN ClassOf(part) ELSE "label",
     visible |-> ~is_alt]

\* lines 70-95: process_content
ProcessContent(content, is_alt) ==
    LET label_parts == NonEmptyParts(ReSplit(content))
        W[k \in 0..Len(label_parts)] ==
            IF k = 0 THEN <<>>
            ELSE LET part == Strip(label_parts[k])
                 IN  IF part = <<>> THEN W[k - 1]
                     ELSE Append(W[k - 1], NewLabel(part, is_alt))
    IN  W[Len(label_parts)]

\* lines 71-77 and 103-113: the stripped, non-empty parts of a template,
\* one per display segment
Segments(content) ==
    SelectSeq([k \in 1..Len(NonEmptyParts(ReSplit(content))) |->
                  Strip(NonEmptyParts(ReSplit(content))[k])],
              LAMBDA part : part # <<>>)

-----------------------------------------------------------------------------
(* LanguageWidget._update_label *)

\* line 113 with the emptiness test of the stripped part left out
PartResolves_Always(part) == TRUE

\* line 113: "if part and ..." on the stripped part
PartResolves(part) == part # <<>>

\* line 120 without the substitution
FormattedText_Unformatted(part, lang) == part

\* line 120: formatted_text = part.format(lang=lang) if lang else part
\* (the dict the query returns is never empty, so it is true whenever present)
FormattedText(part, lang) ==
    IF lang # None THEN FormatPart(part, Value(lang)) ELSE part

\* lines 111-122: the loop over the parts. The result holds the labels
\* after the loop, the indices written (in order) and the number of parts
\* that passed the emptiness test.
UpdateLoop(active_widgets, active_label_content, lang) ==
    LET label_parts == NonEmptyParts(ReSplit(active_label_content))
        start == [ws |-> active_widgets, widget_index |-> 0,
                  written |-> <<>>, resolved |-> 0]
        U[k \in 0..Len(label_parts)] ==
            IF k = 0 THEN start
            ELSE LET st   == U[k - 1]
                     part == Strip(label_parts[k])
                 IN  IF ~PartResolves(part) THEN st
                     ELSE IF ~(st.widget_index < Len(st.ws))
                     THEN [st EXCEPT !.resolved = @ + 1]
                     ELSE LET text == IF IsSpan(part) THEN IconOf(part)
                                      ELSE FormattedText(part, lang)
                          IN  [ws           |-> [st.ws EXCEPT
                                                   ![st.widget_index + 1].text = text],
                               widget_index |-> st.widget_index + 1,
                               written      |-> Append(st.written, st.widget_index + 1),
                               resolved     |-> st.resolved + 1]
    IN  U[Len(label_parts)]

\* _update_label with the given _show_alt_label: the new label lists
UpdateLabel(show_alt, lang) ==
    LET active_widgets == IF show_alt THEN widgets_alt ELSE widgets
        active_content == IF show_alt THEN label_alt_content ELSE label_content
    IN  UpdateLoop(active_widgets, active_content, lang)

\* widget.setVisible(...) forgotten
SetVisible_Skipped(ws, visible) == ws

\* for widget in ws: widget.setVisible(visible)
SetVisible(ws, visible) ==
    [i \in DOMAIN ws |-> [ws[i] EXCEPT !.visible = visible]]

NoUpdate == [written |-> <<>>, resolved |-> 0, lang |-> None, calls |-> 0]

LangIdle ==
    /\ label_content = <<>>
    /\ label_alt_content = <<>>
    /\ lang_show_alt_label = FALSE
    /\ widgets = <<>>
    /\ widgets_alt = <<>>
    /\ toggles = 0
    /\ upd = NoUpdate

\* LanguageWidget.__init__
LangInit ==
    /\ \E p \in TemplatePairs : label_content = p[1] /\ label_alt_content = p[2]
    /\ lang_show_alt_label = FALSE
    /\ widgets = ProcessContent(label_content, FALSE)
    /\ widgets_alt = ProcessContent(label_alt_content, TRUE)
    /\ toggles = 0
    /\ upd = NoUpdate

\* the timer callback "update_label"
UpdateLabelCallback ==
    \E lang \in Langs :
        LET u == UpdateLabel(lang_show_alt_label, lang)
        IN  /\ widgets' = IF lang_show_alt_label THEN widgets ELSE u.ws
            /\ widgets_alt' = IF lang_show_alt_label THEN u.ws ELSE widgets_alt
            /\ upd' = [written |-> u.written, resolved |-> u.resolved,
                       lang |-> lang, calls |-> 1]
            /\ UNCHANGED <<label_content, label_alt_content, lang_show_alt_label,
                           toggles>>

\* the callback "toggle_label": _toggle_label, which ends in _update_label
ToggleLabelCallback ==
    /\ toggles < MaxToggles
    /\ \E lang \in Langs :
        LET show_alt == ~lang_show_alt_label
            shown    == SetVisible(widgets, ~show_alt)
            shownalt == SetVisible(widgets_alt, show_alt)
            u        == UpdateLoop(IF show_alt THEN shownalt ELSE shown,
                                   IF show_alt THEN label_alt_content
                                               ELSE label_content, lang)
        IN  /\ lang_show_alt_label' = show_alt
            /\ widgets' = IF show_alt THEN shown ELSE u.ws
            /\ widgets_alt' = IF show_alt THEN u.ws ELSE shownalt
            /\ upd' = [written |-> u.written, resolved |-> u.resolved,
                       lang |-> lang, calls |-> 1]
            /\ toggles' = toggles + 1
            /\ UNCHANGED <<label_content, label_alt_content>>

-----------------------------------------------------------------------------
(* Specifications *)

\* MediaWidget under the three notification streams, in any interleaving
Init == MediaInit /\ FnIdle /\ LangIdle
Next ==
    \/ SessionStatus /\ UNCHANGED <<fn_vars, lang_vars>>
    \/ PlaybackInfo /\ UNCHANGED <<fn_vars, lang_vars>>
    \/ MediaInfo /\ UNCHANGED <<fn_vars, lang_vars>>
Spec == Init /\ [][Next]_vars

\* _format_max_field_size on every text and limit within the bounds
FormatSpecInit == MediaIdle /\ FormatInit /\ LangIdle
FormatNext == FormatCall /\ UNCHANGED <<media_vars, lang_vars>>
FormatSpec == FormatSpecInit /\ [][FormatNext]_vars

\* _crop_thumbnail over the geometry
CropSpecInit == MediaIdle /\ CropInit /\ LangIdle
CropNext == CropCall /\ UNCHANGED <<media_vars, lang_vars>>
CropSpec == CropSpecInit /\ [][CropNext]_vars

\* _crop_thumbnail over the alpha inputs
AlphaSpecInit == MediaIdle /\ AlphaInit /\ LangIdle
AlphaSpec == AlphaSpecInit /\ [][CropNext]_vars

\* LanguageWidget under its two callbacks
LangSpecInit == MediaIdle /\ FnIdle /\ LangInit
LangNext ==
    \/ UpdateLabelCallback /\ UNCHANGED <<media_vars, fn_vars>>
    \/ ToggleLabelCallback /\ UNCHANGED <<media_vars, fn_vars>>
LangSpec == LangSpecInit /\ [][LangNext]_vars

-----------------------------------------------------------------------------
(* Properties *)

SessionAbsentHandled == last.kind = "session_status" /\ ~last.has_session

\* C1: after a session-status notification with has_session = false is
\* handled, whatever the widget showed before, the thumbnail surface is
\* hidden, the main and sub text are empty, the play button shows the
\* configured 'play' glyph, and with hide_empty the widget frame is hidden.
C1_SessionAbsentClears ==
    SessionAbsentHandled =>
        /\ ~thumbnail_label.visible
        /\ main_text_label.text = <<>>
        /\ sub_text_label.text = <<>>
        /\ play_label.text = Icons.play
        /\ (config.hide_empty => ~widget_frame.visible)

\* a session-absent notification handled after a thumbnail had been set and
\* a playback notification had restyled the buttons, in a hide_empty widget
C1_Witness ==
    /\ SessionAbsentHandled
    /\ config.hide_empty
    /\ ~widget_frame.visible
    /\ thumbnail_label.pixmap # None
    /\ ~thumbnail_label.visible
    /\ play_label.class # <<"btn">>

FormatCalled == fn_args.fn = "_format_max_field_size" /\ fn_result # None
FormatLimit ==
    IF fn_args.show_alt_label THEN fn_args.max_field_size.label_alt
                              ELSE fn_args.max_field_size.label
EndsWithEllipsis(text) ==
    /\ Len(text) >= 3
    /\ SubSeq(text, Len(text) - 2, Len(text)) = Ellipsis

ActiveWidgets == IF lang_show_alt_label THEN widgets_alt ELSE widgets
ActiveContent == IF lang_show_alt_label THEN label_alt_content ELSE label_content
LanguageCodes == {Value(l).language_code : l \in Langs \ {None}}

AllVisible(ws, visible) == \A i \in 1..Len(ws) : ws[i].visible = visible

\* C4: after construction and any sequence of toggle_label and update_label
\* callbacks, the primary elements are all visible and the alternate ones
\* all hidden when the number of toggles so far is even, and the reverse
\* when it is odd (so update_label, which leaves the count alone, never
\* changes visibility).
C4_OneSetVisible ==
    /\ lang_show_alt_label = (toggles % 2 = 1)
    /\ AllVisible(widgets, toggles % 2 = 0)
    /\ AllVisible(widgets_alt, toggles % 2 = 1)

\* three toggles and an update later, two non-empty sets, the alternate shown
C4_Witness ==
    /\ toggles = 3
    /\ upd.calls = 1
    /\ Len(widgets) >= 1
    /\ Len(widgets_alt) >= 1
    /\ AllVisible(widgets_alt, TRUE)
    /\ AllVisible(widgets, FALSE)

\* C5: the number of display segments of each set is the one
\* _create_dynamically_label made at construction, whatever update_label
\* and toggle_label did since; and the number of segments the last
\* _update_label resolved from the active template is the number of
\* elements of the active set, segment i written to element i, every
\* element written.
C5_SegmentCountFixed ==
    /\ Len(widgets) = Len(ProcessContent(label_content, FALSE))
    /\ Len(widgets_alt) = Len(ProcessContent(label_alt_content, TRUE))
    /\ upd.calls = 1 =>
          /\ upd.resolved = Len(ActiveWidgets)
          /\ upd.written = [i \in 1..Len(ActiveWidgets) |-> i]

\* an update of a template of two segments separated by a blank
C5_Witness ==
    /\ upd.calls = 1
    /\ toggles >= 1
    /\ Len(ActiveWidgets) = 2
    /\ upd.written = <<1, 2>>
    /\ \E k \in 1..Len(ActiveContent) : ActiveContent[k] = SP

CropReturned ==
    /\ fn_args.fn = "_crop_thumbnail"
    /\ fn_result # None
    /\ "top" \in DOMAIN Value(fn_result)

\* C6: for a scaled height H and a requested height h with H >= h > 0 the
\* crop band is rows [y1, y1 + h) with y1 = (H - h) div 2: exactly h rows,
\* all inside [0, H), and the rows left above and below differ by at most 1.
C6_CenterCrop ==
    CropReturned =>
        LET res == Value(fn_result)
            H   == res.scaled_height
            h   == fn_args.new_h
            above == res.top
            below == H - res.bottom
        IN  (H >= h /\ h > 0) =>
                /\ 2 * res.top <= H - h /\ H - h < 2 * res.top + 2
                /\ res.bottom = res.top + h
                /\ res.height = h
                /\ 0 <= res.top /\ res.bottom <= H
                /\ above - below \in {-1, 0, 1}

\* a band of three rows cut from a scaled image of six: one row is left
\* above the band and two below
C6_Witness ==
    /\ CropReturned
    /\ fn_args.new_h = 3
    /\ Value(fn_result).scaled_height = 6
    /\ Value(fn_result).top = 1
    /\ Value(fn_result).bottom = 4

AlphaReturned ==
    /\ fn_args.fn = "_crop_thumbnail"
    /\ fn_result # None
    /\ "alpha" \in DOMAIN Value(fn_result)

\* C7: with a non-negative multiplier the alpha is non-increasing in the
\* average lightness when the alpha range is positive (no brighter source
\* gets a higher alpha than the one computed), and is the same for every
\* lightness when the range is 0.
C7_AlphaMonotone ==
    AlphaReturned =>
        LET r == fn_args.cfg.alpha_range_num
            m == fn_args.cfg.alpha_multiplier_num
            alpha == Value(fn_result).alpha
        IN  /\ r > 0 =>
                 \A l2 \in fn_args.l_num..(MaxLightness * LumDen) :
                     ThumbnailAlpha(m, r, l2) <= alpha
            /\ r = 0 =>
                 \A l2 \in 0..(MaxLightness * LumDen) :
                     ThumbnailAlpha(m, r, l2) = alpha

\* a source that is not black gets a strictly lower alpha than a black one
C7_Witness ==
    /\ AlphaReturned
    /\ fn_args.cfg.alpha_range_num > 0
    /\ fn_args.cfg.alpha_multiplier_num > 0
    /\ fn_args.l_num > 0
    /\ Value(fn_result).alpha
          < ThumbnailAlpha(fn_args.cfg.alpha_multiplier_num,
                           fn_args.cfg.alpha_range_num, 0)

\* C8: with thumbnails enabled and controls_only false, after a metadata
\* notification (a mapping) is handled the thumbnail surface is visible only
\* if the notification carried a thumbnail and processing it raised no
\* error; nothing is raised out of the slot and the main/sub text hold the
\* text formatted from that notification.
C8_ThumbnailOnlyWhenCarried ==
    (/\ last.kind = "media_info"
     /\ last.media_info # None
     /\ config.show_thumbnail
     /\ ~config.controls_only) =>
        LET info == Value(last.media_info)
        IN  /\ thumbnail_label.visible =>
                  (info.thumbnail # None /\ ~last.thumbnail_error)
            /\ ~last.raised
            /\ main_text_label.text = FormatLabel(LabelMain, ShortenFields(info))
            /\ sub_text_label.text = FormatLabel(LabelSub, ShortenFields(info))

\* C9: with controls_only = true no notification ever shows the main or sub
\* text field or changes their text: both stay as constructed.
C9_ControlsOnlyTextUntouched ==
    config.controls_only =>
        /\ main_text_label = [text |-> <<>>, visible |-> FALSE]
        /\ sub_text_label = [text |-> <<>>, visible |-> FALSE]

\* C10: under every interleaving of the three notification streams, whenever
\* the session-status notification handled last reported no session, the
\* main/sub text are empty, the thumbnail surface is hidden and the play
\* button shows the 'play' glyph.
C10_AbsentSessionStaysCleared ==
    last_session = "absent" =>
        /\ main_text_label.text = <<>>
        /\ sub_text_label.text = <<>>
        /\ ~thumbnail_label.visible
        /\ play_label.text = Icons.play

\* C11: with controls_only false, _on_media_properties_changed completes
\* without raising for every payload its signal can carry, a mapping or
\* None: no metadata notification leaves the slot through an exception.
C11_MediaSlotNeverRaises ==
    (last.kind = "media_info" /\ ~config.controls_only) => ~last.raised

=============================================================================
